---- MODULE Spec2Model ----
(***************************************************************************)
(* Model of main.py: a Streamlit "Document Chat Assistant" with an         *)
(* embedded lead-capture form.                                             *)
(*                                                                         *)
(* Streamlit re-executes main() from top to bottom after every widget      *)
(* interaction.  The state is st.session_state (conversation,              *)
(* chat_history, collecting_info, user_info) together with the values the  *)
(* widgets hold.  Every action is one interaction followed by one complete *)
(* run of main().  The validators and the text splitter are also applied  *)
(* on their own, to arguments drawn in the initial state.                  *)
(*                                                                         *)
(* Python strings are sequences of one-character strings, so that          *)
(* lower(), the `in` substring test, strptime and strftime are computed.   *)
(***************************************************************************)
EXTENDS Integers, Sequences, FiniteSets, TLC

(***************************************************************************)
(* Bounds of the model                                                     *)
(***************************************************************************)
\* Largest number of answered questions kept in chat_history.
MaxTurns == 2

(***************************************************************************)
(* Strings                                                                 *)
(***************************************************************************)
Upper == <<"A","B","C","D","E","F","G","H","I","J","K","L","M",
           "N","O","P","Q","R","S","T","U","V","W","X","Y","Z">>

LowerAlpha == <<"a","b","c","d","e","f","g","h","i","j","k","l","m",
                "n","o","p","q","r","s","t","u","v","w","x","y","z">>

Digits == <<"0","1","2","3","4","5","6","7","8","9">>

IsDigit(c) == \E i \in 1..10 : Digits[i] = c

IsLetter(c) == \E i \in 1..26 : Upper[i] = c \/ LowerAlpha[i] = c

DigitVal(c) == (CHOOSE i \in 1..10 : Digits[i] = c) - 1

\* str.lower(), one character
LowerChar(c) ==
    IF \E i \in 1..26 : Upper[i] = c
    THEN LowerAlpha[CHOOSE i \in 1..26 : Upper[i] = c]
    ELSE c

\* str.lower()
Lower(s) == [i \in 1..Len(s) |-> LowerChar(s[i])]

\* Python's `sub in s` on strings
Contains(sub, s) ==
    \E i \in 0..(Len(s) - Len(sub)) : SubSeq(s, i + 1, i + Len(sub)) = sub

\* the decimal digits of s, in order
RECURSIVE OnlyDigits(_)
OnlyDigits(s) ==
    IF s = <<>> THEN <<>>
    ELSE IF IsDigit(Head(s)) THEN <<Head(s)>> \o OnlyDigits(Tail(s))
    ELSE OnlyDigits(Tail(s))

\* value of a string of decimal digits
RECURSIVE ToInt(_)
ToInt(s) ==
    IF s = <<>> THEN 0
    ELSE 10 * ToInt(SubSeq(s, 1, Len(s) - 1)) + DigitVal(s[Len(s)])

\* decimal digits of n >= 0, without padding
RECURSIVE ToStr(_)
ToStr(n) ==
    IF n < 10 THEN <<Digits[n + 1]>>
    ELSE ToStr(n \div 10) \o <<Digits[(n % 10) + 1]>>

\* decimal digits of n, left-padded with "0" to width w
RECURSIVE Pad(_, _)
Pad(s, w) == IF Len(s) >= w THEN s ELSE Pad(<<"0">> \o s, w)

(***************************************************************************)
(* Calendar (datetime, timedelta)                                          *)
(***************************************************************************)
IsLeap(y) == (y % 4 = 0 /\ y % 100 # 0) \/ y % 400 = 0

DaysInMonth(y, m) ==
    IF m = 2 THEN (IF IsLeap(y) THEN 29 ELSE 28)
    ELSE IF m \in {4, 6, 9, 11} THEN 30 ELSE 31

\* proleptic Gregorian ordinal, as datetime.toordinal(): 0001-01-01 is 1
DaysBeforeYear(y) ==
    (y - 1) * 365 + ((y - 1) \div 4) - ((y - 1) \div 100) + ((y - 1) \div 400)

RECURSIVE DaysBeforeMonth(_, _)
DaysBeforeMonth(y, m) ==
    IF m = 1 THEN 0 ELSE DaysBeforeMonth(y, m - 1) + DaysInMonth(y, m - 1)

ToOrdinal(d) == DaysBeforeYear(d.y) + DaysBeforeMonth(d.y, d.m) + d.d

\* datetime.weekday(): Monday is 0, Sunday is 6
Weekday(d) == (ToOrdinal(d) + 6) % 7

\* d + timedelta(days = 1)
NextDay(d) ==
    IF d.d < DaysInMonth(d.y, d.m) THEN [d EXCEPT !.d = d.d + 1]
    ELSE IF d.m < 12 THEN [y |-> d.y, m |-> d.m + 1, d |-> 1]
    ELSE [y |-> d.y + 1, m |-> 1, d |-> 1]

\* d + timedelta(days = n), n >= 0
RECURSIVE AddDays(_, _)
AddDays(d, n) == IF n = 0 THEN d ELSE AddDays(NextDay(d), n - 1)

(***************************************************************************)
(* parse_date                                                              *)
(***************************************************************************)
\* Python's None: a value different from every string
None == <<"None">>

\* no exception was raised
NoFault == "none"

\* the keys of the dict `days`, in insertion order; days[DayNames[i]] = i - 1
DayNames == << <<"m","o","n","d","a","y">>,
               <<"t","u","e","s","d","a","y">>,
               <<"w","e","d","n","e","s","d","a","y">>,
               <<"t","h","u","r","s","d","a","y">>,
               <<"f","r","i","d","a","y">>,
               <<"s","a","t","u","r","d","a","y">>,
               <<"s","u","n","d","a","y">> >>

NextWord == <<"n","e","x","t">>

AllDigits(s) == \A i \in 1..Len(s) : IsDigit(s[i])

\* the directive %m of strptime: 1[0-2]|0[1-9]|[1-9]
IsMonthToken(t) ==
    \/ Len(t) = 2 /\ t[1] = "1" /\ t[2] \in {"0", "1", "2"}
    \/ Len(t) = 2 /\ t[1] = "0" /\ IsDigit(t[2]) /\ t[2] # "0"
    \/ Len(t) = 1 /\ IsDigit(t[1]) /\ t[1] # "0"

\* the directive %d of strptime: 3[0-1]|[1-2]\d|0[1-9]|[1-9]| [1-9]
IsDayToken(t) ==
    \/ Len(t) = 2 /\ t[1] = "3" /\ t[2] \in {"0", "1"}
    \/ Len(t) = 2 /\ t[1] \in {"1", "2"} /\ IsDigit(t[2])
    \/ Len(t) = 2 /\ t[1] \in {"0", " "} /\ IsDigit(t[2]) /\ t[2] # "0"
    \/ Len(t) = 1 /\ IsDigit(t[1]) /\ t[1] # "0"

\* the fields of datetime.strptime(s, "%Y-%m-%d") where the text matches
\* the format: (\d\d\d\d)-(%m)-(%d) and nothing behind it
StrptimeFields(s) ==
    LET n == Len(s)
        mlen == IF n >= 7 /\ s[7] = "-" THEN 1 ELSE 2
    IN  [y |-> ToInt(SubSeq(s, 1, 4)),
         m |-> ToInt(OnlyDigits(SubSeq(s, 6, 5 + mlen))),
         d |-> ToInt(OnlyDigits(SubSeq(s, 7 + mlen, n)))]

\* datetime.strptime(s, "%Y-%m-%d") returns a date; it raises ValueError
\* otherwise (no match, unconverted data, year 0, day out of range)
StrptimeOk(s) ==
    LET n == Len(s)
        mlen == IF n >= 7 /\ s[7] = "-" THEN 1 ELSE 2
    IN  /\ n >= 8
        /\ AllDigits(SubSeq(s, 1, 4))
        /\ s[5] = "-"
        /\ n >= 6 + mlen /\ s[6 + mlen] = "-"
        /\ IsMonthToken(SubSeq(s, 6, 5 + mlen))
        /\ IsDayToken(SubSeq(s, 7 + mlen, n))
        /\ StrptimeFields(s).y >= 1
        /\ StrptimeFields(s).d <= DaysInMonth(StrptimeFields(s).y, StrptimeFields(s).m)

\* strftime("%Y-%m-%d"): %m and %d are zero-padded to two digits; %Y is
\* what the C library prints, which is the unpadded year with glibc and
\* the year padded to four digits elsewhere
StrftimeOutcomes(dt) ==
    { yy \o <<"-">> \o Pad(ToStr(dt.m), 2) \o <<"-">> \o Pad(ToStr(dt.d), 2) :
        yy \in {ToStr(dt.y), Pad(ToStr(dt.y), 4)} }

\* the first key of `days` that occurs in the text: next(k for k in ...)
MatchingDays(text) == {i \in 1..7 : Contains(DayNames[i], text)}

\* where sub occurs first in s
FirstIndex(sub, s) ==
    CHOOSE i \in 0..(Len(s) - Len(sub)) :
        /\ SubSeq(s, i + 1, i + Len(sub)) = sub
        /\ \A j \in 0..(i - 1) : SubSeq(s, j + 1, j + Len(sub)) # sub

\* the key of `days` that occurs first in the text
FirstDayInText(text) ==
    CHOOSE i \in MatchingDays(text) :
        \A j \in MatchingDays(text) :
            FirstIndex(DayNames[i], text) <= FirstIndex(DayNames[j], text)

FirstDay(text) == CHOOSE i \in MatchingDays(text) : \A j \in MatchingDays(text) : i <= j

\* days_ahead where the target weekday may be today
DaysAheadOrToday(target_day, current_day) ==
    IF target_day - current_day < 0
    THEN target_day - current_day + 7
    ELSE target_day - current_day

\* days_ahead of parse_date for a target and a current weekday
DaysAhead(target_day, current_day) ==
    IF target_day - current_day <= 0
    THEN target_day - current_day + 7
    ELSE target_day - current_day

\* the exception raised inside the try block of parse_date: next() raises
\* StopIteration where no key of `days` occurs in the text, strptime raises
\* ValueError
ParseDateFault(date_string) ==
    IF Contains(NextWord, Lower(date_string))
    THEN IF MatchingDays(Lower(date_string)) = {} THEN "StopIteration" ELSE NoFault
    ELSE IF StrptimeOk(date_string) THEN NoFault ELSE "ValueError"

\* an except clause for ValueError only
ParseDateCatchesValueError(fault) == fault = "ValueError"

\* line 88: `except:` catches every exception
ParseDateCatches(fault) == TRUE

\* the exception that leaves parse_date(date_string), or NoFault
ParseDateEscape(date_string) ==
    IF ParseDateFault(date_string) = NoFault THEN NoFault
    ELSE IF ParseDateCatches(ParseDateFault(date_string)) THEN NoFault
    ELSE ParseDateFault(date_string)

\* parse_date(date_string) when datetime.now() is `today`: the values it can
\* return.  An exception that is caught is turned into None.
ParseDateOutcomes(date_string, today) ==
    IF ParseDateFault(date_string) # NoFault
    THEN {None}
    ELSE IF Contains(NextWord, Lower(date_string))
    THEN LET target_day == FirstDay(Lower(date_string)) - 1
             current_day == Weekday(today)
             days_ahead == DaysAhead(target_day, current_day)
         IN  StrftimeOutcomes(AddDays(today, days_ahead))
    ELSE StrftimeOutcomes(StrptimeFields(date_string))

(***************************************************************************)
(* validate_phone                                                          *)
(***************************************************************************)
\* characters phonenumbers.parse accepts between the digits of a number
PhonePunctuation == {"-", " ", "(", ")", ".", "/"}

\* phonenumbers.parse(phone, "US"): the national number, or None where it
\* raises NumberParseException.  A text with other characters than digits
\* and punctuation, or with fewer than 3 digits, is not a viable number; a
\* leading country code 1 in front of ten digits is stripped.
ParsePhone(phone) ==
    LET ds == OnlyDigits(phone)
    IN  IF \/ \E i \in 1..Len(phone) :
                 ~IsDigit(phone[i]) /\ phone[i] \notin PhonePunctuation
           \/ Len(ds) < 3
        THEN None
        ELSE IF Len(ds) = 11 /\ ds[1] = "1" THEN Tail(ds) ELSE ds

\* a validity check that also accepts a local number of seven digits
IsValidNumberOrLocal(national) == Len(national) \in {7, 10}

\* phonenumbers.is_valid_number for region US: ten digits NXX NXX XXXX with
\* N in 2..9 (the North American numbering plan)
IsValidNumber(national) ==
    /\ Len(national) = 10
    /\ national[1] \notin {"0", "1"}
    /\ national[4] \notin {"0", "1"}

\* the exception raised inside the try block of validate_phone
ValidatePhoneFault(phone) ==
    IF ParsePhone(phone) = None THEN "NumberParseException" ELSE NoFault

\* line 95: `except:` catches every exception
ValidatePhoneCatches(fault) == TRUE

\* the exception that leaves validate_phone(phone), or NoFault
ValidatePhoneEscape(phone) ==
    IF ValidatePhoneFault(phone) = NoFault THEN NoFault
    ELSE IF ValidatePhoneCatches(ValidatePhoneFault(phone)) THEN NoFault
    ELSE ValidatePhoneFault(phone)

\* validate_phone(phone)
ValidatePhone(phone) ==
    IF ValidatePhoneFault(phone) # NoFault THEN FALSE
    ELSE IsValidNumber(ParsePhone(phone))

(***************************************************************************)
(* validate_email_address                                                  *)
(***************************************************************************)
AtomChars == {".", "-", "_", "+"}

IsAtext(s) == \A i \in 1..Len(s) : IsLetter(s[i]) \/ IsDigit(s[i]) \/ s[i] \in AtomChars

\* dot-separated text: no empty part, so no leading, trailing or double dot
DotsOk(s) ==
    /\ s # <<>>
    /\ s[1] # "." /\ s[Len(s)] # "."
    /\ \A i \in 1..(Len(s) - 1) : ~(s[i] = "." /\ s[i + 1] = ".")

\* the syntax check of email_validator.validate_email: one "@", a dot-atom
\* local part, a domain of at least two labels
EmailSyntaxOk(email) ==
    LET ats == {i \in 1..Len(email) : email[i] = "@"}
    IN  /\ Cardinality(ats) = 1
        /\ LET at == CHOOSE i \in ats : TRUE
               local == SubSeq(email, 1, at - 1)
               domain == SubSeq(email, at + 1, Len(email))
           IN  /\ DotsOk(local) /\ IsAtext(local)
               /\ DotsOk(domain) /\ IsAtext(domain)
               /\ Contains(<<".">>, domain)
               /\ \A i \in 1..Len(domain) : domain[i] \notin {"_", "+"}

\* the exception raised inside the try block of validate_email_address:
\* validate_email checks the syntax and then (check_deliverability defaults
\* to True) that the domain resolves in the DNS; `resolves` is the answer of
\* the DNS
ValidateEmailFault(email, resolves) ==
    IF ~EmailSyntaxOk(email) THEN "EmailSyntaxError"
    ELSE IF ~resolves THEN "EmailUndeliverableError"
    ELSE NoFault

\* EmailNotValidError and its subclasses
EmailNotValidError == {"EmailNotValidError", "EmailSyntaxError", "EmailUndeliverableError"}

\* line 102: `except EmailNotValidError:`
ValidateEmailCatches(fault) == fault \in EmailNotValidError

\* the exception that leaves validate_email_address(email), or NoFault
ValidateEmailEscape(email, resolves) ==
    IF ValidateEmailFault(email, resolves) = NoFault THEN NoFault
    ELSE IF ValidateEmailCatches(ValidateEmailFault(email, resolves)) THEN NoFault
    ELSE ValidateEmailFault(email, resolves)

\* validate_email_address(email): True where validate_email returns, False
\* where it raises EmailNotValidError
ValidateEmailAddress(email, resolves) == ValidateEmailFault(email, resolves) = NoFault

(***************************************************************************)
(* Inputs: the values the user can give to the widgets                     *)
(***************************************************************************)
Empty == <<>>

\* uploaded files: name, and for each page the lengths of its paragraphs (the
\* pieces of text between blank lines)
NotesTxt == [name |-> <<"n",".","t","x","t">>, pages |-> << <<300>> >>]

APdf == [name |-> <<"a",".","p","d","f">>, pages |-> << <<2500>> >>]

BPdf == [name |-> <<"b",".","p","d","f">>, pages |-> << <<600, 500>>, <<100>> >>]

FileLists == {<<>>, <<NotesTxt>>, <<APdf>>, <<NotesTxt, BPdf>>}

Hi == <<"h","i">>

CallMe == <<"C","a","l","l"," ","M","e">>

Call == <<"c","a","l","l">>

ContactMe == <<"c","o","n","t","a","c","t"," ","m","e">>

ReSchedule == <<"r","e","S","C","H","E","D","U","L","E">>

EBooks == <<"e","B","o","o","k","s">>

Questions == {Hi, Call, CallMe, ContactMe, ReSchedule, EBooks}

Jo == <<"J","o">>

ShortPhone == <<"5","5","5","-","0","1","0","0">>

GoodPhone == <<"6","5","0","-","2","5","3","-","0","0","0","0">>

NotAnEmail == <<"n","o","t","-","a","n","-","e","m","a","i","l">>

GoodEmail == <<"j","o","@","x",".","i","o">>

Jan15 == <<"2","0","2","4","-","0","1","-","1","5">>

Year999 == <<"0","9","9","9","-","0","1","-","0","1">>

NextFriday == <<"N","e","x","t"," ","F","r","i","d","a","y">>

NextOnly == <<"n","e","x","t">>

NextMonday == <<"n","e","x","t"," ","m","o","n","d","a","y">>

NextTuesday == <<"n","e","x","t"," ","T","u","e","s","d","a","y">>

NextWednesday == <<"N","E","X","T"," ","W","E","D","N","E","S","D","A","Y">>

NextThursday == <<"n","e","x","t"," ","t","h","u","r","s","d","a","y">>

NextSaturday == <<"s","e","e"," ","y","o","u"," ","n","e","x","t"," ","s","a","t","u","r","d","a","y">>

NextSunday == <<"N","e","x","t"," ","S","u","n","d","a","y">>

NextFridayLower == <<"n","e","x","t"," ","F","r","i","d","a","y">>

NextFridayOrMonday == <<"n","e","x","t"," ","f","r","i","d","a","y"," ","o","r"," ","m","o","n","d","a","y">>

NextSundayOrTuesday == <<"N","e","x","t"," ","S","u","n","d","a","y"," ","o","r"," ","T","u","e","s","d","a","y">>

NextJan15 == <<"n","e","x","t"," ","2","0","2","4","-","0","1","-","1","5">>

Friday == <<"f","r","i","d","a","y">>

ShortDate == <<"2","0","2","4","-","1","-","5">>

NotADate == <<"n","o","t"," ","a"," ","d","a","t","e">>

Feb30 == <<"2","0","2","4","-","0","2","-","3","0">>

Slashed == <<"0","1","/","1","5","/","2","0","2","4">>

TrailingSpace == <<"2","0","2","4","-","0","1","-","1","5"," ">>

Accented == <<"é"," ","è">>

Letters == <<"a","b","c">>

TwoAts == <<"a","@","@","b",".","c">>

\* a long text
LongText == [i \in 1..40 |-> "9"]

\* the texts parse_date is applied to
DateTexts ==
    {NextMonday, NextTuesday, NextWednesday, NextThursday, NextFriday,
     NextFridayLower,
     NextSaturday, NextSunday, NextFridayOrMonday, NextSundayOrTuesday,
     NextOnly, NextJan15, Friday, Jan15, ShortDate, Year999, NotADate, Feb30,
     Slashed, TrailingSpace, Empty, Accented, LongText}

\* values of datetime.now() for parse_date: a week from Monday 2024-06-10,
\* the end of a month and the end of a year
DateTodays ==
    { [y |-> 2024, m |-> 6, d |-> d] : d \in 10..16 }
    \cup { [y |-> 2024, m |-> 6, d |-> 28], [y |-> 2024, m |-> 12, d |-> 30] }

\* the texts validate_phone is applied to
PhoneTexts == {Empty, ShortPhone, GoodPhone, Letters, Accented, LongText}

\* the texts validate_email_address is applied to
EmailTexts == {Empty, NotAnEmail, GoodEmail, TwoAts, Accented, LongText}

\* what the four text inputs of the form can hold
Forms ==
    [name : {Empty, Jo},
     phone : {Empty, ShortPhone, GoodPhone},
     email : {Empty, NotAnEmail, GoodEmail},
     date : {Empty, Jan15, ShortDate, Year999,
             NextFriday, NextOnly}]

EmptyForm == [name |-> Empty, phone |-> Empty, email |-> Empty, date |-> Empty]

\* a form that passes, one with an empty field, and one with a bad phone and
\* a bad email
SomeForms ==
    { [name |-> Jo, phone |-> GoodPhone, email |-> GoodEmail, date |-> NextFriday],
      [name |-> Jo, phone |-> GoodPhone, email |-> GoodEmail, date |-> Empty],
      [name |-> Jo, phone |-> ShortPhone, email |-> NotAnEmail, date |-> Jan15] }

\* values of datetime.now(): a Monday, and a Friday at the end of a month
Todays == { [y |-> 2024, m |-> 6, d |-> 10], [y |-> 2024, m |-> 6, d |-> 28] }

\* answers of the language model
Answers == { <<"a","1">>, <<"a","2">> }

(***************************************************************************)
(* State                                                                   *)
(***************************************************************************)
VARIABLES
    conversation,      \* st.session_state.conversation: None or the chain
    chat_history,      \* st.session_state.chat_history: list of (role, text)
    collecting_info,   \* st.session_state.collecting_info
    user_info,         \* st.session_state.user_info: {} or the lead record
    uploaded_files,    \* value of the file uploader
    user_question,     \* value of the question text input
    question_shown,    \* the last run rendered the question input
    form_shown,        \* the last run rendered the form and its button
    answered,          \* the (question, answer) pairs the chain has returned
    out,               \* what the last run of main() read and did
    call               \* a call of a validator on its own: arguments, result

vars == <<conversation, chat_history, collecting_info, user_info,
          uploaded_files, user_question, question_shown, form_shown,
          answered, out, call>>

\* the session and the widgets
session == <<conversation, chat_history, collecting_info, user_info,
             uploaded_files, user_question, question_shown, form_shown,
             answered, out>>

\* the two modes of the session
Mode == IF collecting_info THEN "CAPTURING_LEAD" ELSE "ANSWERING"

\* the dict {} of line 22
NoUserInfo == [k \in {} |-> <<>>]

(***************************************************************************)
(* process_documents                                                       *)
(***************************************************************************)
PdfSuffix == <<".","p","d","f">>

\* file.name.endswith('.pdf')
IsPdf(file) ==
    /\ Len(file.name) >= Len(PdfSuffix)
    /\ SubSeq(file.name, Len(file.name) - Len(PdfSuffix) + 1, Len(file.name)) = PdfSuffix

\* the list `documents` after the loop: the pages of the PDF files, in order
RECURSIVE LoadDocuments(_)
LoadDocuments(files) ==
    IF files = <<>> THEN <<>>
    ELSE (IF IsPdf(Head(files)) THEN Head(files).pages ELSE <<>>)
         \o LoadDocuments(Tail(files))

\* process_documents returns None: no document was loaded
NoDocuments(files) == LoadDocuments(files) = <<>>

\* CharacterTextSplitter(chunk_size=1000, chunk_overlap=200)
ChunkSize == 1000

ChunkOverlap == 200

\* length of the default separator "\n\n" of CharacterTextSplitter
SeparatorLen == 2

RECURSIVE SumLen(_, _, _)
SumLen(p, lo, hi) == IF lo > hi THEN 0 ELSE p[lo] + SumLen(p, lo + 1, hi)

\* the chunk made of the paragraphs lo..hi of a page, joined by the separator:
\* where it starts in the page, and its length
Chunk(p, lo, hi) ==
    [start |-> SumLen(p, 1, lo - 1) + SeparatorLen * (lo - 1),
     len |-> SumLen(p, lo, hi) + SeparatorLen * (hi - lo)]

\* the inner loop of the splitter's merge: paragraphs are dropped from the
\* front of the current chunk until what stays is no longer than the overlap
\* and the next paragraph, of length l, fits
RECURSIVE DropFront(_, _, _, _, _)
DropFront(p, lo, hi, total, l) ==
    IF \/ total > ChunkOverlap
       \/ /\ total + l + (IF hi - lo + 1 > 0 THEN SeparatorLen ELSE 0) > ChunkSize
          /\ total > 0
    THEN DropFront(p, lo + 1, hi,
                   total - (p[lo] + (IF hi - lo + 1 > 1 THEN SeparatorLen ELSE 0)), l)
    ELSE <<lo, total>>

\* the splitter's merge of the paragraphs p[k..] of a page, the current chunk
\* holding the paragraphs lo..k-1 of total length `total`: a paragraph is
\* added to the current chunk while it fits in ChunkSize, else the chunk is
\* closed and the next one starts with its tail; a paragraph is never cut
RECURSIVE MergeSplits(_, _, _, _)
MergeSplits(p, k, lo, total) ==
    IF k > Len(p)
    THEN IF lo <= Len(p) THEN <<Chunk(p, lo, Len(p))>> ELSE <<>>
    ELSE LET closes == /\ total + p[k] + (IF k - lo > 0 THEN SeparatorLen ELSE 0) > ChunkSize
                       /\ k - lo > 0
             kept == IF closes THEN DropFront(p, lo, k - 1, total, p[k]) ELSE <<lo, total>>
         IN  (IF closes THEN <<Chunk(p, lo, k - 1)>> ELSE <<>>)
             \o MergeSplits(p, k + 1, kept[1],
                            kept[2] + p[k] + (IF k - kept[1] > 0 THEN SeparatorLen ELSE 0))

\* text_splitter.split_documents(documents): the chunks of every page, in order
RECURSIVE SplitDocuments(_)
SplitDocuments(documents) ==
    IF documents = <<>> THEN <<>>
    ELSE MergeSplits(Head(documents), 1, 1, 0) \o SplitDocuments(Tail(documents))

\* the chain built at lines 147-154 over the vector store of the chunks
NewConversation(files) == <<"chain", SplitDocuments(LoadDocuments(files))>>

(***************************************************************************)
(* collect_user_information                                                *)
(***************************************************************************)
MissingField == "Please fill in all fields"

InvalidPhone == "Please enter a valid phone number"

InvalidEmail == "Please enter a valid email address"

InvalidDate == "Please enter a valid date"

NoError == ""

\* The validators are computed once for the values the form can hold.
\* the phones validate_phone accepts
ValidPhones == { p \in {f.phone : f \in Forms} : ValidatePhone(p) }

\* the emails validate_email_address accepts, with the answer of the DNS
ValidEmails ==
    { x \in {f.email : f \in Forms} \X BOOLEAN : ValidateEmailAddress(x[1], x[2]) }

\* the values parse_date can return, for every date text and every today
ParsedDates ==
    UNION { { <<x[1], x[2], pd>> : pd \in ParseDateOutcomes(x[1], x[2]) } :
            x \in {f.date : f \in Forms} \X Todays }

\* a rejection that returns a dict all the same
RejectedWithDict(msg, called) ==
    [returned |-> "dict", info |-> NoUserInfo, error |-> msg, called |-> called]

\* result of a call that returns None after st.error(msg), having called the
\* validators in `called`
Rejected(msg, called) ==
    [returned |-> "None", info |-> NoUserInfo, error |-> msg, called |-> called]

\* the checks without `not date` at line 114
SubmitResultDateUnchecked(form, resolves, parsed_date) ==
    IF form.name = Empty \/ form.phone = Empty \/ form.email = Empty
    THEN Rejected(MissingField, <<>>)
    ELSE IF form.phone \notin ValidPhones
    THEN Rejected(InvalidPhone, <<"validate_phone">>)
    ELSE IF <<form.email, resolves>> \notin ValidEmails
    THEN Rejected(InvalidEmail, <<"validate_phone", "validate_email_address">>)
    ELSE IF parsed_date = None
    THEN Rejected(InvalidDate,
                  <<"validate_phone", "validate_email_address", "parse_date">>)
    ELSE [returned |-> "dict",
          info |-> [name |-> form.name, phone |-> form.phone,
                    email |-> form.email, date |-> parsed_date],
          error |-> NoError,
          called |-> <<"validate_phone", "validate_email_address", "parse_date">>]

\* the checks with the email validated before the phone
SubmitResultEmailFirst(form, resolves, parsed_date) ==
    IF form.name = Empty \/ form.phone = Empty \/ form.email = Empty \/ form.date = Empty
    THEN Rejected(MissingField, <<>>)
    ELSE IF <<form.email, resolves>> \notin ValidEmails
    THEN Rejected(InvalidEmail, <<"validate_email_address">>)
    ELSE IF form.phone \notin ValidPhones
    THEN Rejected(InvalidPhone, <<"validate_email_address", "validate_phone">>)
    ELSE IF parsed_date = None
    THEN Rejected(InvalidDate,
                  <<"validate_email_address", "validate_phone", "parse_date">>)
    ELSE [returned |-> "dict",
          info |-> [name |-> form.name, phone |-> form.phone,
                    email |-> form.email, date |-> parsed_date],
          error |-> NoError,
          called |-> <<"validate_email_address", "validate_phone", "parse_date">>]

\* the checks of lines 114-129 and the dict of lines 131-136; parsed_date is
\* one of the values parse_date can return
SubmitResult(form, resolves, parsed_date) ==
    IF form.name = Empty \/ form.phone = Empty \/ form.email = Empty \/ form.date = Empty
    THEN Rejected(MissingField, <<>>)
    ELSE IF form.phone \notin ValidPhones
    THEN Rejected(InvalidPhone, <<"validate_phone">>)
    ELSE IF <<form.email, resolves>> \notin ValidEmails
    THEN Rejected(InvalidEmail, <<"validate_phone", "validate_email_address">>)
    ELSE IF parsed_date = None
    THEN Rejected(InvalidDate,
                  <<"validate_phone", "validate_email_address", "parse_date">>)
    ELSE [returned |-> "dict",
          info |-> [name |-> form.name, phone |-> form.phone,
                    email |-> form.email, date |-> parsed_date],
          error |-> NoError,
          called |-> <<"validate_phone", "validate_email_address", "parse_date">>]

\* collect_user_information(): the results it can have when the text inputs
\* hold `form` and `clicked` tells whether the Submit button was clicked
CollectUserInformation(form, clicked, today, resolves) ==
    IF clicked
    THEN { SubmitResult(form, resolves, x[3]) :
             x \in { y \in ParsedDates : y[1] = form.date /\ y[2] = today } }
    ELSE { Rejected(NoError, <<>>) }

(***************************************************************************)
(* main                                                                    *)
(***************************************************************************)
Keywords == { <<"c","a","l","l"," ","m","e">>,
              <<"c","o","n","t","a","c","t"," ","m","e">>,
              <<"s","c","h","e","d","u","l","e">>,
              <<"b","o","o","k">> }

\* a trigger test that does not lower the question
HasTriggerCaseSensitive(question) == \E keyword \in Keywords : Contains(keyword, question)

\* the test of line 160
HasTrigger(question) == \E keyword \in Keywords : Contains(keyword, Lower(question))

\* the questions of the model for which the test of line 160 is true,
\* computed once
Triggering == { q \in Questions \cup {Empty} : HasTrigger(q) }

\* a trigger check that forgets the flag a former run has set
AfterTriggerForgets(collecting, question) == question \in Triggering

\* lines 160-161: collecting_info after the trigger check
AfterTrigger(collecting, question) == collecting \/ question \in Triggering

\* a dispatch that always asks the chain
TakesCaptureNever(collecting) == FALSE

\* a dispatch that shows the form for ever once a lead was captured
TakesCaptureOnceCaptured(collecting) == collecting \/ user_info # NoUserInfo

\* line 163: the form is shown, else the chain is asked
TakesCapture(collecting) == collecting

\* the two appends in the wrong order
AppendTurnsAnswerFirst(history, question, answer) ==
    history \o << <<"Assistant", answer>>, <<"User", question>> >>

\* the turns appended at lines 174-175
AppendTurns(history, question, answer) ==
    history \o << <<"User", question>>, <<"Assistant", answer>> >>

\* no question was passed to the chain
NoCall == <<"NoCall">>

\* the chain raised instead of returning an answer
GenerationError == <<"GenerationError">>

\* the user turn stored before the chain is called
TurnsAfterReplyUserFirst(history, question, answer) ==
    IF answer = GenerationError THEN Append(history, <<"User", question>>)
    ELSE AppendTurns(history, question, answer)

\* lines 170-175: chat_history after the call of the chain; where the call
\* raises, the run ends at line 170 and nothing is appended
TurnsAfterReply(history, question, answer) ==
    IF answer = GenerationError THEN history
    ELSE AppendTurns(history, question, answer)

NoDate == [y |-> 1, m |-> 1, d |-> 1]

\* a guard that builds the chain in every run
NeedsIngestAlways == TRUE

\* line 146: the session has no chain yet
NeedsIngest == conversation = None

\* lines 146-154: the chain is built only when the session has none
Ingested(f) == IF NeedsIngest THEN NewConversation(f) ELSE conversation

\* a run that changes nothing in the session but possibly the chain
Quiet(branch, conv, showQuestion) ==
    [conversation |-> conv, chat_history |-> chat_history,
     collecting_info |-> collecting_info, user_info |-> user_info,
     answered |-> answered, show_question |-> showQuestion, show_form |-> FALSE,
     out |-> [branch |-> branch, question |-> Empty,
              built |-> branch = "no_question" /\ NeedsIngest,
              raised |-> IF branch = "ingest_failed" THEN "AttributeError" ELSE NoFault,
              collecting_before |-> collecting_info,
              collecting |-> collecting_info, clicked |-> FALSE,
              form |-> EmptyForm, submit |-> Rejected(NoError, <<>>),
              today |-> NoDate, resolves |-> FALSE,
              asked |-> NoCall, answer |-> NoCall]]

\* lines 163-168 for one result r of collect_user_information
Captured(f, q, form, clicked, today, resolves, r) ==
    [conversation |-> Ingested(f), chat_history |-> chat_history,
     collecting_info |-> IF r.returned = "dict" THEN FALSE
                         ELSE AfterTrigger(collecting_info, q),
     user_info |-> IF r.returned = "dict" THEN r.info ELSE user_info,
     answered |-> answered, show_question |-> TRUE, show_form |-> TRUE,
     out |-> [branch |-> "capture", question |-> q,
              built |-> NeedsIngest, raised |-> NoFault,
              collecting_before |-> collecting_info,
              collecting |-> AfterTrigger(collecting_info, q),
              clicked |-> clicked,
              form |-> IF clicked THEN form ELSE EmptyForm,
              submit |-> r,
              today |-> IF Len(r.called) = 3 THEN today ELSE NoDate,
              resolves |-> IF Len(r.called) >= 2 THEN resolves ELSE FALSE,
              asked |-> NoCall, answer |-> NoCall]]

\* lines 163-168 for every value of datetime.now(), every answer of the DNS
\* and every result of collect_user_information
CaptureOutcomes(f, q, form, clicked) ==
    UNION { { Captured(f, q, form, clicked, tr[1], tr[2], r) :
                r \in CollectUserInformation(form, clicked, tr[1], tr[2]) } :
            tr \in (IF clicked THEN Todays \X BOOLEAN ELSE {<<NoDate, FALSE>>}) }

\* lines 169-175 for one reply of the chain: an answer, or GenerationError
\* where the call of line 170 raises and the run ends there
Answered(f, q, a) ==
    [conversation |-> Ingested(f),
     chat_history |-> TurnsAfterReply(chat_history, q, a),
     collecting_info |-> AfterTrigger(collecting_info, q), user_info |-> user_info,
     answered |-> IF a = GenerationError THEN answered ELSE Append(answered, <<q, a>>),
     show_question |-> TRUE, show_form |-> FALSE,
     out |-> [branch |-> "answer", question |-> q,
              built |-> NeedsIngest,
              raised |-> IF a = GenerationError THEN "GenerationError" ELSE NoFault,
              collecting_before |-> collecting_info,
              collecting |-> AfterTrigger(collecting_info, q), clicked |-> FALSE,
              form |-> EmptyForm, submit |-> Rejected(NoError, <<>>),
              today |-> NoDate, resolves |-> FALSE,
              asked |-> q, answer |-> a]]

\* one run of main() with the uploaded files f, the question q and the text
\* inputs `form`, the Submit button clicked or not: the session, the widgets
\* rendered and the record of the run it can end with
MainOutcomes(f, q, form, clicked) ==
    IF f = <<>>
    THEN \* line 145: nothing was uploaded
         { Quiet("no_files", conversation, FALSE) }
    ELSE IF NeedsIngest /\ NoDocuments(f)
    THEN \* lines 147-152: process_documents returned None and
         \* vectorstore.as_retriever() raises AttributeError; the run ends
         { Quiet("ingest_failed", conversation, FALSE) }
    ELSE IF q = Empty
    THEN \* line 158
         { Quiet("no_question", Ingested(f), TRUE) }
    ELSE IF TakesCapture(AfterTrigger(collecting_info, q))
    THEN CaptureOutcomes(f, q, form, clicked)
    ELSE { Answered(f, q, a) : a \in Answers \cup {GenerationError} }

\* an interaction of the user and the run of main() it causes
Main(f, q, form, clicked) ==
    \E o \in MainOutcomes(f, q, form, clicked) :
        /\ Len(o.chat_history) <= 2 * MaxTurns
        /\ conversation' = o.conversation
        /\ chat_history' = o.chat_history
        /\ collecting_info' = o.collecting_info
        /\ user_info' = o.user_info
        /\ answered' = o.answered
        /\ uploaded_files' = f
        \* a widget the run did not render loses its value
        /\ user_question' = IF o.show_question THEN q ELSE Empty
        /\ question_shown' = o.show_question
        /\ form_shown' = o.show_form
        /\ out' = o.out
        /\ call' = call

(***************************************************************************)
(* Actions                                                                 *)
(***************************************************************************)
\* no validator is called on its own
NoValidatorCall ==
    [fn |-> "none", arg |-> Empty, today |-> NoDate, resolves |-> FALSE,
     done |-> FALSE, result |-> None, raised |-> NoFault]

\* the session after lines 15-22, before the first run of main()
InitSession ==
    /\ conversation = None
    /\ chat_history = <<>>
    /\ collecting_info = FALSE
    /\ user_info = NoUserInfo
    /\ uploaded_files = <<>>
    /\ user_question = Empty
    /\ question_shown = FALSE
    /\ form_shown = FALSE
    /\ answered = <<>>
    /\ out = Quiet("start", None, FALSE).out

Init ==
    /\ InitSession
    /\ call = NoValidatorCall

\* the script runs again with the widgets as they are: the page is opened or
\* reloaded, or the user has typed into a text input of the form
Rerun == Main(uploaded_files, user_question, EmptyForm, FALSE)

\* the user changes the uploaded files
Upload(lists) ==
    \E f \in lists \ {uploaded_files} :
        Main(f, user_question, EmptyForm, FALSE)

\* the user changes the question
Ask(questions) ==
    /\ question_shown
    /\ \E q \in (questions \cup {Empty}) \ {user_question} :
         Main(uploaded_files, q, EmptyForm, FALSE)

\* the user clicks Submit while the text inputs hold one of `forms`
Submit(forms) ==
    /\ form_shown
    /\ \E form \in forms :
         Main(uploaded_files, user_question, form, TRUE)

\* the controller: every question, a few forms
Next ==
    \/ Rerun
    \/ Upload(FileLists)
    \/ Ask(Questions)
    \/ Submit(SomeForms)

Spec == Init /\ [][Next]_vars

\* the lead capture: one question that opens the form, every form
NextLead ==
    \/ Rerun
    \/ Upload({<<>>, <<NotesTxt>>, <<APdf>>})
    \/ Ask({CallMe})
    \/ Submit(Forms)

SpecLead == Init /\ [][NextLead]_vars

(***************************************************************************)
(* The validators on their own                                             *)
(***************************************************************************)
\* a validator is about to be called with a text; parse_date reads
\* datetime.now() and validate_email_address the DNS
InitValidators ==
    /\ InitSession
    /\ call \in
         { [NoValidatorCall EXCEPT !.fn = "parse_date", !.arg = x[1], !.today = x[2]] :
             x \in DateTexts \X DateTodays }
         \cup { [NoValidatorCall EXCEPT !.fn = "validate_phone", !.arg = p] :
                  p \in PhoneTexts }
         \cup { [NoValidatorCall EXCEPT !.fn = "validate_email_address",
                                        !.arg = x[1], !.resolves = x[2]] :
                  x \in EmailTexts \X BOOLEAN }

\* the call returns `result`, or `fault` leaves it where that is not NoFault
Returns(fault, result) ==
    /\ call' = [call EXCEPT !.done = TRUE, !.raised = fault,
                            !.result = IF fault = NoFault THEN result ELSE None]
    /\ UNCHANGED session

\* parse_date(call.arg)
ParseDate ==
    /\ call.fn = "parse_date" /\ ~call.done
    /\ \E r \in ParseDateOutcomes(call.arg, call.today) :
         Returns(ParseDateEscape(call.arg), r)

\* validate_phone(call.arg)
ValidatePhoneCall ==
    /\ call.fn = "validate_phone" /\ ~call.done
    /\ Returns(ValidatePhoneEscape(call.arg), ValidatePhone(call.arg))

\* validate_email_address(call.arg)
ValidateEmailCall ==
    /\ call.fn = "validate_email_address" /\ ~call.done
    /\ Returns(ValidateEmailEscape(call.arg, call.resolves),
               ValidateEmailAddress(call.arg, call.resolves))

NextValidators == ParseDate \/ ValidatePhoneCall \/ ValidateEmailCall

SpecValidators == InitValidators /\ [][NextValidators]_vars

(***************************************************************************)
(* The text splitter on its own                                            *)
(***************************************************************************)
\* lengths of the paragraphs of a page
ParagraphLengths == {100, 200, 500, 800, 896, 1200, 2500}

\* pages of one to three paragraphs, among them a page of 2500 characters
\* in one paragraph and one of 2500 characters in three
Pages ==
    UNION { [1..n -> ParagraphLengths] : n \in 1..3 }

\* the splitter is about to be applied to one document
InitSplit ==
    /\ InitSession
    /\ call \in { [NoValidatorCall EXCEPT !.fn = "split_documents", !.arg = p] :
                     p \in Pages }

\* text_splitter.split_documents([document]) of line 60
SplitPage ==
    /\ call.fn = "split_documents" /\ ~call.done
    /\ call' = [call EXCEPT !.done = TRUE, !.result = SplitDocuments(<<call.arg>>)]
    /\ UNCHANGED session

NextSplit == SplitPage

SpecSplit == InitSplit /\ [][NextSplit]_vars

(***************************************************************************)
(* Properties                                                              *)
(***************************************************************************)
\* the questions of the model that hold "call me", "contact me", "schedule"
\* or "book" in some letter case
TriggerQuestions == {CallMe, ContactMe, ReSchedule, EBooks}

\* the last run handled a question
Handled(o) == o.branch \in {"capture", "answer"}

\* the last run read a submission of the form
Submitted(o) == o.branch = "capture" /\ o.clicked

AnyEmpty(form) ==
    form.name = Empty \/ form.phone = Empty \/ form.email = Empty \/ form.date = Empty

\* the text has the shape YYYY-MM-DD
IsIsoDate(s) ==
    /\ Len(s) = 10
    /\ \A i \in {1, 2, 3, 4, 6, 7, 9, 10} : IsDigit(s[i])
    /\ s[5] = "-" /\ s[8] = "-"

\* the turns of a list of (question, answer) pairs
RECURSIVE Turns(_)
Turns(log) ==
    IF log = <<>> THEN <<>>
    ELSE << <<"User", Head(log)[1]>>, <<"Assistant", Head(log)[2]>> >> \o Turns(Tail(log))

IsPrefix(s, t) == Len(s) <= Len(t) /\ SubSeq(t, 1, Len(s)) = s

\* C1 as stated: a run that handles a question holding a trigger phrase ends
\* in mode CAPTURING_LEAD whatever the mode was, does not pass the question
\* to the chain and leaves chat_history as it was.
C1_TriggerEndsCapturing ==
    [][ (Handled(out') /\ out'.question \in TriggerQuestions)
        => /\ collecting_info'
           /\ out'.asked = NoCall
           /\ chat_history' = chat_history ]_vars

\* C1, amended: a run that handles a question holding a trigger phrase is
\* dispatched to the form with collecting_info set, whatever the mode was; it
\* does not pass the question to the chain and leaves chat_history as it was;
\* it ends in mode CAPTURING_LEAD unless the submission read by that same run
\* passed every check, and then it ends in mode ANSWERING.
C1_TriggerGoesToForm ==
    [][ (Handled(out') /\ out'.question \in TriggerQuestions)
        => /\ out'.branch = "capture" /\ out'.collecting
           /\ out'.asked = NoCall
           /\ chat_history' = chat_history
           /\ collecting_info' = (out'.submit.returned # "dict") ]_vars

\* a trigger question was handled in mode ANSWERING with turns in the history
C1_Witness ==
    /\ out.question \in TriggerQuestions
    /\ ~out.collecting_before
    /\ collecting_info
    /\ chat_history # <<>>

\* C2: a question is passed to the chain only by a run that dispatched in
\* mode ANSWERING: collecting_info was false before the run and after the
\* trigger check.
C2_ChainOnlyWhenAnswering ==
    out.asked # NoCall => (~out.collecting /\ ~out.collecting_before)

\* the chain answered after a lead had been captured
C2_Witness ==
    /\ out.asked # NoCall /\ out.answer \in Answers
    /\ user_info # NoUserInfo

\* C3: chat_history is the User and Assistant turns of the questions the
\* chain has answered, in that order and nothing else; no answered question
\* holds a trigger phrase; every step extends chat_history at its end.
C3_HistoryIsAnswers ==
    /\ [](/\ chat_history = Turns(answered)
          /\ \A i \in 1..Len(answered) : answered[i][1] \notin TriggerQuestions)
    /\ [][IsPrefix(chat_history, chat_history')]_vars

\* two questions were answered, and a submission failed afterwards
C3_Witness ==
    /\ Len(chat_history) = 4
    /\ chat_history[2] # chat_history[4]
    /\ Submitted(out) /\ out.submit.returned = "None"
    /\ user_info # NoUserInfo

\* C4: a run that handles a question in mode CAPTURING_LEAD leaves
\* chat_history as it was, whether the submission passes or fails.
C4_CaptureKeepsHistory ==
    [][ (collecting_info /\ Handled(out')) => chat_history' = chat_history ]_vars

\* a submission passed in mode CAPTURING_LEAD with turns in the history
C4_Witness ==
    /\ Submitted(out) /\ out.collecting_before
    /\ out.submit.returned = "dict"
    /\ chat_history # <<>>

\* C5: a submission with an empty field is rejected with MissingField and
\* no validator is called.
C5_MissingField ==
    (Submitted(out) /\ AnyEmpty(out.form))
    => /\ out.submit.returned = "None"
       /\ out.submit.error = MissingField
       /\ out.submit.called = <<>>

\* a submission with an empty name and a phone no validator would accept
C5_Witness ==
    /\ Submitted(out)
    /\ out.form.name = Empty /\ out.form.phone = ShortPhone
    /\ out.form.email = NotAnEmail /\ out.form.date = NextOnly

\* C6: a submission with no empty field calls validate_phone, then
\* validate_email_address, then parse_date, stops at the first that rejects
\* and reports its error.
C6_ValidatorOrder ==
    (Submitted(out) /\ ~AnyEmpty(out.form))
    => LET phoneOk == ValidatePhone(out.form.phone)
           emailOk == ValidateEmailAddress(out.form.email, out.resolves)
           dateOk == None \notin ParseDateOutcomes(out.form.date, out.today)
       IN  /\ ~phoneOk
              => /\ out.submit.error = InvalidPhone
                 /\ out.submit.called = <<"validate_phone">>
           /\ (phoneOk /\ ~emailOk)
              => /\ out.submit.error = InvalidEmail
                 /\ out.submit.called = <<"validate_phone", "validate_email_address">>
           /\ (phoneOk /\ emailOk /\ ~dateOk)
              => /\ out.submit.error = InvalidDate
                 /\ out.submit.called =
                      <<"validate_phone", "validate_email_address", "parse_date">>
           /\ out.submit.error = InvalidPhone => ~phoneOk
           /\ out.submit.error = InvalidEmail => (phoneOk /\ ~emailOk)
           /\ out.submit.error = InvalidDate => (phoneOk /\ emailOk /\ ~dateOk)

\* a submission whose phone, email and date are all invalid
C6_Witness ==
    /\ Submitted(out)
    /\ out.form = [name |-> Jo, phone |-> ShortPhone, email |-> NotAnEmail,
                   date |-> NextOnly]
    /\ out.submit.error = InvalidPhone

\* the form of the example
C7Form == [name |-> Jo, phone |-> ShortPhone, email |-> NotAnEmail, date |-> Jan15]

\* C7 as stated: the submission Jo, 555-0100, not-an-email, 2024-01-15 is
\* rejected with InvalidEmail, returns no record and leaves user_info as it
\* was.
C7_ExampleInvalidEmail ==
    [][ (Submitted(out') /\ out'.form = C7Form)
        => /\ out'.submit.error = InvalidEmail
           /\ out'.submit.returned = "None"
           /\ user_info' = user_info ]_vars

\* C7, amended: that submission is rejected with InvalidPhone, because
\* 555-0100 is no valid US number and the phone is validated first; it
\* returns no record and leaves user_info as it was.
C7_ExampleInvalidPhone ==
    [][ (Submitted(out') /\ out'.form = C7Form)
        => /\ out'.submit.error = InvalidPhone
           /\ out'.submit.called = <<"validate_phone">>
           /\ out'.submit.returned = "None"
           /\ user_info' = user_info ]_vars

\* the example was submitted in a session without a lead
C7_Witness ==
    /\ Submitted(out) /\ out.form = C7Form
    /\ user_info = NoUserInfo

\* the submission read by the run passes every check
Passes(o) ==
    /\ Submitted(o) /\ ~AnyEmpty(o.form)
    /\ ValidatePhone(o.form.phone)
    /\ ValidateEmailAddress(o.form.email, o.resolves)
    /\ None \notin ParseDateOutcomes(o.form.date, o.today)

\* C8 as stated: after a submission that passes every check, user_info holds
\* the submitted name, phone and email and, as date, the value parse_date
\* returned, which has the shape YYYY-MM-DD; the mode is ANSWERING.
C8_LeadStored ==
    Passes(out)
    => /\ DOMAIN user_info = {"name", "phone", "email", "date"}
       /\ user_info.name = out.form.name
       /\ user_info.phone = out.form.phone
       /\ user_info.email = out.form.email
       /\ user_info.date \in ParseDateOutcomes(out.form.date, out.today)
       /\ IsIsoDate(user_info.date)
       /\ ~collecting_info

\* C9: a submission that is rejected leaves the mode CAPTURING_LEAD and
\* user_info as it was.
C9_RejectedKeepsSession ==
    [][ (Submitted(out')
         /\ out'.submit.error \in {MissingField, InvalidPhone, InvalidEmail, InvalidDate})
        => /\ collecting_info'
           /\ user_info' = user_info ]_vars

\* a submission was rejected for its date after a lead had been captured
C9_Witness ==
    /\ Submitted(out) /\ out.submit.error = InvalidDate
    /\ user_info # NoUserInfo
    /\ collecting_info

\* C10 as stated: user_info is {} or a record of four non-empty fields with
\* a phone validate_phone accepts, an email of valid syntax and a date of the
\* shape YYYY-MM-DD.
C10_LeadComplete ==
    \/ user_info = NoUserInfo
    \/ /\ DOMAIN user_info = {"name", "phone", "email", "date"}
       /\ user_info.name # Empty
       /\ ValidatePhone(user_info.phone)
       /\ EmailSyntaxOk(user_info.email)
       /\ IsIsoDate(user_info.date)

\* C11: once the session holds a chain, no run of main() replaces it or
\* builds a chain again, whether the uploaded files are the same as before or
\* other ones.
C11_ChainBuiltOnce ==
    [][ conversation # None
        => /\ conversation' = conversation
           /\ ~out'.built ]_vars

\* a run handled a question on the chain of a.pdf while other files, with a
\* PDF among them, were uploaded
C11_Witness ==
    /\ conversation = NewConversation(<<APdf>>)
    /\ uploaded_files = <<NotesTxt, BPdf>>
    /\ Handled(out) /\ ~out.built

\* C12 as stated: a run of main() on uploaded files with no PDF among them,
\* in a session without a chain, reports the empty input and raises nothing;
\* the session stays without a chain, and while it has none no question is
\* passed to the chain and neither the mode nor chat_history changes.
C12_EmptyInputIsLocal ==
    [][ /\ out'.branch = "ingest_failed"
           => (out'.raised = NoFault /\ conversation' = None)
        /\ conversation' = None
           => /\ out'.asked = NoCall
              /\ collecting_info' = collecting_info
              /\ chat_history' = chat_history ]_vars

\* parse_date was called on its own and has returned or raised
DateCall == call.fn = "parse_date" /\ call.done

\* the date a text of the shape YYYY-MM-DD names
DateOf(s) ==
    [y |-> ToInt(SubSeq(s, 1, 4)), m |-> ToInt(SubSeq(s, 6, 7)),
     d |-> ToInt(SubSeq(s, 9, 10))]

\* texts that hold "next" and the name of one weekday; the text at t + 1
\* names the weekday t
NextDayTexts ==
    <<NextMonday, NextTuesday, NextWednesday, NextThursday, NextFriday,
      NextSaturday, NextSunday>>

\* the weekday of the values of datetime.now() in DateTodays: 2024-06-10 is a
\* Monday, 2024-06-28 a Friday and 2024-12-30 a Monday
WeekdayOfToday(today) ==
    IF today.m = 6 /\ today.d \in 10..16 THEN today.d - 10
    ELSE IF today.m = 6 THEN 4 ELSE 0

\* C13: for every current weekday c and target weekday t, parse_date of a
\* text with "next" and the name of weekday t returns the date d days after
\* today, where d = t - c if t > c and d = t - c + 7 otherwise, so d is in
\* 1..7 and the date is never today; on Monday 2024-06-10 "next monday" gives
\* "2024-06-17" and "next Friday" gives "2024-06-14".
C13_NextWeekday ==
    /\ \A t \in 0..6 :
         (DateCall /\ call.arg = NextDayTexts[t + 1])
         => LET c == WeekdayOfToday(call.today)
                d == IF t > c THEN t - c ELSE t - c + 7
            IN  /\ call.raised = NoFault
                /\ IsIsoDate(call.result)
                /\ ToOrdinal(DateOf(call.result)) = ToOrdinal(call.today) + d
                /\ d \in 1..7
                /\ DateOf(call.result) # call.today
    /\ (DateCall /\ call.today = [y |-> 2024, m |-> 6, d |-> 10])
       => /\ call.arg = NextMonday
             => call.result = <<"2","0","2","4","-","0","6","-","1","7">>
          /\ call.arg = NextFridayLower
             => call.result = <<"2","0","2","4","-","0","6","-","1","4">>

\* "next monday" was resolved on a Monday
C13_Witness ==
    /\ DateCall /\ call.arg = NextMonday
    /\ call.today = [y |-> 2024, m |-> 6, d |-> 10]
    /\ call.result = <<"2","0","2","4","-","0","6","-","1","7">>

\* the text is strictly of the form YYYY-MM-DD and names a date of the calendar
IsValidIsoDate(s) ==
    /\ IsIsoDate(s)
    /\ DateOf(s).y >= 1
    /\ DateOf(s).m \in 1..12
    /\ DateOf(s).d \in 1..DaysInMonth(DateOf(s).y, DateOf(s).m)

\* the text holds "next" in some letter case
HoldsNext(s) == Contains(NextWord, Lower(s))

\* the text holds the name of a weekday in some letter case
HoldsWeekday(s) == \E i \in 1..7 : Contains(DayNames[i], Lower(s))

\* C14 as stated: parse_date returns None for a text with "next" and no
\* weekday name, also where it holds a well-formed date, and for a text
\* without "next" that is not strictly of the form YYYY-MM-DD, also a bare
\* weekday name; a text without "next" that is a valid YYYY-MM-DD date is
\* returned as it is.
C14_NeitherGrammarIsInvalid ==
    DateCall
    => /\ call.raised = NoFault
       /\ (HoldsNext(call.arg) /\ ~HoldsWeekday(call.arg)) => call.result = None
       /\ (~HoldsNext(call.arg) /\ ~IsValidIsoDate(call.arg)) => call.result = None
       /\ (~HoldsNext(call.arg) /\ IsValidIsoDate(call.arg)) => call.result = call.arg

\* the splitter was applied to one document on its own
SplitCall == call.fn = "split_documents" /\ call.done

\* the length of a page: its paragraphs and the blank lines between them
PageLength(p) == SumLen(p, 1, Len(p)) + 2 * (Len(p) - 1)

\* C15 as stated: the chunks of one document are in document order, every
\* chunk starts 800 characters after the one before it and none is longer
\* than 1000 characters; a document of 2500 characters gives 3 chunks, the
\* second of which starts at offset 800.
C15_FixedStride ==
    SplitCall
    => /\ \A i \in 1..(Len(call.result) - 1) :
            call.result[i + 1].start = call.result[i].start + 800
       /\ \A i \in 1..Len(call.result) : call.result[i].len <= 1000
       /\ PageLength(call.arg) = 2500
          => /\ Len(call.result) = 3
             /\ call.result[2].start = 800

\* a validator was called on its own and has returned or raised
ValidatorCall ==
    /\ call.fn \in {"parse_date", "validate_phone", "validate_email_address"}
    /\ call.done

\* C16: for every text, the empty one, one with letters outside ASCII and a
\* long one among them, validate_phone and validate_email_address return
\* True or False and parse_date returns a date text or None; no exception
\* raised inside leaves the validator.
C16_ValidatorsTotal ==
    ValidatorCall
    => /\ call.raised = NoFault
       /\ call.fn = "parse_date"
          => \/ call.result = None
             \/ /\ Len(call.result) >= 8
                /\ \A i \in 1..Len(call.result) :
                     IsDigit(call.result[i]) \/ call.result[i] = "-"
       /\ call.fn \in {"validate_phone", "validate_email_address"}
          => call.result \in BOOLEAN

\* parse_date returned None for "next", for which next() raises StopIteration
C16_Witness ==
    /\ ValidatorCall /\ call.fn = "parse_date"
    /\ call.arg = NextOnly
    /\ ParseDateFault(call.arg) = "StopIteration"
    /\ call.result = None /\ call.raised = NoFault

\* the run read a submission that passed every check
Succeeded(o) == Submitted(o) /\ o.submit.returned = "dict"

\* C17: from mode CAPTURING_LEAD every run of main(), whatever the question
\* holds, ends in mode CAPTURING_LEAD unless it read a submission that passed
\* every check; the run that read one ends in mode ANSWERING and stores the
\* record in user_info.
C17_CapturingUntilSuccess ==
    [][ collecting_info
        => /\ collecting_info' = ~Succeeded(out')
           /\ Succeeded(out')
              => /\ user_info' = out'.submit.info
                 /\ user_info' # NoUserInfo ]_vars

\* in mode CAPTURING_LEAD a question without a trigger phrase was handled
\* and a submission was rejected; the mode is still CAPTURING_LEAD
C17_Witness ==
    /\ out.branch = "capture" /\ out.question = Hi
    /\ out.collecting_before /\ collecting_info
    /\ Submitted(out) /\ ~Succeeded(out)
    /\ user_info # NoUserInfo

\* the weekdays a text names, Monday being 0
NamedWeekdays(s) == {t \in 0..6 : Contains(DayNames[t + 1], Lower(s))}

\* C18: for a text with "next" and the names of several weekdays,
\* parse_date resolves to the named weekday that comes first in the order
\* Monday, ..., Sunday, wherever the names stand in the text; "next friday
\* or monday" resolves to a Monday.
C18_FirstInEnumeration ==
    /\ (DateCall /\ HoldsNext(call.arg) /\ Cardinality(NamedWeekdays(call.arg)) > 1)
       => LET named == NamedWeekdays(call.arg)
              first == CHOOSE t \in named : \A u \in named : t <= u
              c == WeekdayOfToday(call.today)
              d == IF first > c THEN first - c ELSE first - c + 7
          IN  /\ IsIsoDate(call.result)
              /\ ToOrdinal(DateOf(call.result)) = ToOrdinal(call.today) + d
    /\ (DateCall /\ call.arg = NextFridayOrMonday)
       => /\ IsIsoDate(call.result)
          /\ (ToOrdinal(DateOf(call.result))
                - ToOrdinal([y |-> 2024, m |-> 6, d |-> 10])) % 7 = 0

\* "next friday or monday" was resolved on Tuesday 2024-06-11 to the Monday
\* after the Friday
C18_Witness ==
    /\ DateCall /\ call.arg = NextFridayOrMonday
    /\ call.today = [y |-> 2024, m |-> 6, d |-> 11]
    /\ call.result = <<"2","0","2","4","-","0","6","-","1","7">>

\* C19: in mode ANSWERING with a lead in user_info, a run that handles a
\* question without a trigger phrase passes it to the chain and, where the
\* chain answers, appends the question and the answer to chat_history;
\* user_info keeps the lead.
C19_ResumesAnswering ==
    [][ (/\ ~collecting_info /\ user_info # NoUserInfo
         /\ Handled(out') /\ out'.question \notin TriggerQuestions)
        => /\ out'.branch = "answer"
           /\ out'.asked = out'.question
           /\ out'.answer \in Answers
              => chat_history' = chat_history \o << <<"User", out'.question>>,
                                                   <<"Assistant", out'.answer>> >>
           /\ user_info' = user_info ]_vars

\* "hi" was answered after a lead had been captured, and its turns are the
\* last of chat_history
C19_Witness ==
    /\ out.branch = "answer" /\ out.question = Hi /\ out.answer \in Answers
    /\ user_info # NoUserInfo /\ ~collecting_info
    /\ Len(chat_history) >= 2
    /\ chat_history[Len(chat_history) - 1] = <<"User", Hi>>
    /\ chat_history[Len(chat_history)] = <<"Assistant", out.answer>>

\* C20: a run in mode ANSWERING in which the chain raises ends with that
\* exception after the one call of the chain; chat_history, the mode and
\* user_info are as before, so neither the question nor an answer was
\* appended.
C20_FailedAnswerKeepsSession ==
    [][ (Handled(out') /\ out'.answer = GenerationError)
        => /\ out'.raised = "GenerationError"
           /\ out'.asked = out'.question
           /\ chat_history' = chat_history
           /\ answered' = answered
           /\ ~collecting_info /\ ~collecting_info'
           /\ user_info' = user_info ]_vars

\* the chain raised on "hi" in a session with turns in chat_history and a
\* lead in user_info
C20_Witness ==
    /\ out.branch = "answer" /\ out.answer = GenerationError
    /\ out.question = Hi
    /\ chat_history # <<>>
    /\ user_info # NoUserInfo

====
